---- MODULE Spec2Model ----
(***************************************************************************)
(* Connection pool management of the two Django database wrappers:         *)
(*   utils/database_wrapper.py       (psycopg2 ThreadedConnectionPool)     *)
(*   utils/database_wrapper/base.py  (psycopg_pool ConnectionPool)         *)
(* A process runs one of the two engines; `engine` records which.          *)
(* The pool objects themselves come from the driver libraries; their       *)
(* acquire/release/resize/close behaviour is the Pool contract of the      *)
(* design document (section 4.2).                                          *)
(***************************************************************************)
EXTENDS Integers, FiniteSets, Sequences, TLC

\* ---- bounds of the model ----
MaxPools == 3           \* pool objects constructed in one run
MaxConns == 3           \* connections the database server accepts in one run
MaxTime == 3            \* clock ticks in one run (one tick = 900 s)

\* ---- settings_dict values of the modelled deployment ----
MinConnections == 1     \* MIN_CONNECTIONS
MaxConnections == 1     \* MAX_CONNECTIONS
MaxOverflow == 1        \* MAX_OVERFLOW

Engines == {"wrapper", "base"}
Wrappers == {"w1", "w2"}
Aliases == {"default", "replica"}

PoolIds == 1..MaxPools
ConnIds == 1..MaxConns
NoPool == 0
NoConn == 0
NoOne == "none"

VARIABLES
    engine,     \* which wrapper class the process uses
    alias,      \* self.alias of each wrapper
    order,      \* the aliases in the order _pool_settings yields them
    lock,       \* owner of _pool_lock / _lock (NoOne when free)
    registry,   \* _pools / _connection_pools: alias -> pool id or NoPool
    pools,      \* pool objects: id -> record
    health,     \* connection objects: id -> "none" | "ok" | "closed"
    pc,         \* position of each wrapper's thread
    ret,        \* where a pool lookup returns to
    cur,        \* the pool the last lookup returned (self.pool)
    got,        \* local variable conn / connection of get_new_connection
    conn,       \* self.connection of each wrapper
    err,        \* exception in flight in get_new_connection
    old,        \* local variable current_pool of _cleanup_connections
    settings,   \* _pool_settings: alias -> stored settings (base.py)
    monitor,    \* number of monitor threads started (base.py)
    now,        \* the clock, datetime.now()
    sweptAt,    \* the clock reading of the latest monitor sweep (-1: none yet)
    sweep,      \* the monitor thread inside _check_all_pools, alias by alias
    at,         \* the statement of get_new_connection that raised err
    failed,     \* the pool whose getconn or putconn raised err
    src,        \* the pool that discarded the connection that failed validation
    retry       \* the retry loop of get_new_connection without a pool

vars == <<engine, alias, order, lock, registry, pools, health, pc, ret, cur, got, conn, err,
          old, settings, monitor, now, sweptAt, sweep, at, failed, src, retry>>

AliasOf(w) == alias[w]

\* the deployments considered: both threads' wrappers on one alias, or one
\* wrapper on each of two aliases
OneAlias == [w \in Wrappers |-> "default"]
TwoAliases == [w \in Wrappers |-> IF w = "w1" THEN "default" ELSE "replica"]
AliasChoices == {OneAlias, TwoAliases}

\* ------------------------------------------------------------------------
\* Pool objects (driver library; contract of section 4.2)
\* ------------------------------------------------------------------------
UnbornPool == [alias |-> "", state |-> "none", idle |-> {}, used |-> {},
               size |-> 0, cap |-> 0, min |-> 0]

\* a pool built one connection too large
PoolCapacityPlus == MaxConnections + MaxOverflow + 1

\* maxconn = max_connections + max_overflow; max_size and max_overflow
PoolCapacity == MaxConnections + MaxOverflow

NewPool(a) == [alias |-> a, state |-> "open", idle |-> {}, used |-> {},
               size |-> 0, cap |-> PoolCapacity, min |-> MinConnections]

UnbornConns == {c \in ConnIds : health[c] = "none"}
FreshConn == CHOOSE c \in UnbornConns : \A d \in UnbornConns : c <= d
UnbornPools == {p \in PoolIds : pools[p].state = "none"}
FreshPool == CHOOSE p \in UnbornPools : \A q \in UnbornPools : p <= q

Result(c, e, ps, h) == [res |-> c, e |-> e, pools |-> ps, health |-> h]

\* acquire(): an idle connection, else a new one while size < cap, else
\* PoolExhausted; PoolClosed on a closed pool.  Opening a connection fails
\* with "too many clients already" whenever the server refuses it.
Getconn(p) ==
    LET P == pools[p] IN
    IF P.state # "open" THEN {Result(NoConn, "PoolClosed", pools, health)}
    ELSE IF P.idle # {} THEN
        {Result(c, "none",
                [pools EXCEPT ![p].idle = @ \ {c}, ![p].used = @ \cup {c}],
                health) : c \in P.idle}
    ELSE IF P.size < P.cap THEN
        {Result(NoConn, "TooManyClients", pools, health)} \cup
        (IF UnbornConns = {} THEN {} ELSE
           {Result(FreshConn, "none",
                   [pools EXCEPT ![p].used = @ \cup {FreshConn}, ![p].size = @ + 1],
                   [health EXCEPT ![FreshConn] = "ok"])})
    ELSE {Result(NoConn, "PoolExhausted", pools, health)}

\* release(connection): a healthy connection returns to the idle set; a
\* closed one, or any connection when close is asked, is discarded and size
\* decremented.
Putconn(p, c, close) ==
    LET P == pools[p] IN
    IF P.state # "open" THEN Result(NoConn, "PoolClosed", pools, health)
    ELSE IF c \notin P.used THEN Result(NoConn, "NotFromPool", pools, health)
    ELSE IF close \/ health[c] = "closed" THEN
        Result(NoConn, "none",
               [pools EXCEPT ![p].used = @ \ {c}, ![p].size = @ - 1],
               [health EXCEPT ![c] = "closed"])
    ELSE Result(NoConn, "none",
                [pools EXCEPT ![p].used = @ \ {c}, ![p].idle = @ \cup {c}],
                health)

Max(a, b) == IF a >= b THEN a ELSE b
Min(a, b) == IF a <= b THEN a ELSE b

\* resize(targetMin): closes excess idle connections, never a checked-out one
ResizeIn(ps, h, p, targetMin) ==
    LET P == ps[p]
        n == Min(Cardinality(P.idle), Max(0, P.size - targetMin))
    IN  IF P.state # "open" THEN {Result(NoConn, "PoolClosed", ps, h)}
        ELSE {Result(NoConn, "none",
                     [ps EXCEPT ![p].idle = @ \ S, ![p].size = @ - n],
                     [c \in ConnIds |-> IF c \in S THEN "closed" ELSE h[c]])
              : S \in {T \in SUBSET P.idle : Cardinality(T) = n}}

Resize(p, targetMin) == ResizeIn(pools, health, p, targetMin)

\* close(): closes every connection and marks the pool terminal
ClosePoolIn(ps, h, p) ==
    LET P == ps[p] IN
    IF P.state # "open" THEN Result(NoConn, "PoolClosed", ps, h)
    ELSE Result(NoConn, "none",
                [ps EXCEPT ![p].state = "closed", ![p].idle = {}, ![p].used = {},
                           ![p].size = 0],
                [c \in ConnIds |-> IF c \in P.idle \cup P.used THEN "closed"
                                   ELSE h[c]])

ClosePool(p) == ClosePoolIn(pools, health, p)

busy(p) == Cardinality(pools[p].used)
idle(p) == Cardinality(pools[p].idle)
size(p) == pools[p].size

\* ------------------------------------------------------------------------
\* Initial state: nothing constructed yet
\* ------------------------------------------------------------------------
NoSettings == << >>
NoSweep == [pc |-> "sleep", i |-> 0, t |-> 0, n |-> 0, seen |-> {}]
RetryOff == [rpc |-> "off", fails |-> 0, final |-> "ok", retry_count |-> 0,
             retry_delay |-> 0, attempts |-> 0, sleeps |-> << >>]

MainInit ==
    /\ engine \in Engines
    /\ alias \in AliasChoices
    /\ order = << >>
    /\ lock = NoOne
    /\ registry = [a \in Aliases |-> NoPool]
    /\ pools = [p \in PoolIds |-> UnbornPool]
    /\ health = [c \in ConnIds |-> "none"]
    /\ pc = [w \in Wrappers |-> "new"]
    /\ ret = [w \in Wrappers |-> "none"]
    /\ cur = [w \in Wrappers |-> NoPool]
    /\ got = [w \in Wrappers |-> NoConn]
    /\ conn = [w \in Wrappers |-> NoConn]
    /\ err = [w \in Wrappers |-> "none"]
    /\ old = [w \in Wrappers |-> NoPool]
    /\ settings = [a \in Aliases |-> NoSettings]
    /\ monitor = 0
    /\ now = 0
    /\ sweptAt = -1
    /\ sweep = NoSweep
    /\ at = [w \in Wrappers |-> "none"]
    /\ failed = [w \in Wrappers |-> NoPool]
    /\ src = [w \in Wrappers |-> NoPool]

Init == MainInit /\ retry = RetryOff /\ alias = OneAlias

\* ------------------------------------------------------------------------
\* __init__
\* ------------------------------------------------------------------------
PoolTimeout == 3000

\* the dictionary stored in _pool_settings[alias]
StoredSettings(t) ==
    [k \in {"min_connections", "max_connections", "max_overflow", "timeout", "created_at"} |->
        CASE k = "min_connections" -> MinConnections
          [] k = "max_connections" -> MaxConnections
          [] k = "max_overflow" -> MaxOverflow
          [] k = "timeout" -> PoolTimeout
          [] k = "created_at" -> t]

\* __init__ up to the test of line 37; the test and the start of the monitor
\* are not under the lock
Construct(w) ==
    /\ pc[w] = "new"
    /\ IF engine = "base"
       THEN /\ settings' = [settings EXCEPT ![AliasOf(w)] = StoredSettings(now)]
            /\ order' = IF \E i \in 1..Len(order) : order[i] = AliasOf(w)
                        THEN order ELSE Append(order, AliasOf(w))
            /\ pc' = [pc EXCEPT ![w] = IF monitor = 0 THEN "start_monitor" ELSE "idle"]
       ELSE /\ pc' = [pc EXCEPT ![w] = "idle"]
            /\ UNCHANGED <<settings, order>>
    /\ UNCHANGED <<retry, engine, alias, lock, registry, pools, health, ret, cur, got, conn, err, old, monitor, now, sweptAt, sweep, at, failed, src>>

\* _start_pool_monitor: a thread is created, stored in _pool_monitor and
\* started
start_pool_monitor(w) ==
    /\ pc[w] = "start_monitor"
    /\ monitor' = monitor + 1
    /\ pc' = [pc EXCEPT ![w] = "idle"]
    /\ UNCHANGED <<retry, engine, alias, order, lock, registry, pools, health, ret, cur, got, conn, err, old, settings, now, sweptAt, sweep, at, failed, src>>

\* ------------------------------------------------------------------------
\* pool lookup-or-create: the pool property of base.py, and the locked
\* block at the head of get_new_connection of database_wrapper.py
\* ------------------------------------------------------------------------
\* the lookup without the registry lock
NoLock(w) == TRUE

\* with self._pool_lock / with DatabaseWrapper._lock
LockFree(w) == lock \in {NoOne, w}

\* A lookup that is followed at once by another evaluation of self.pool
\* continues with that lookup.
Cont(label) ==
    CASE label = "entered" -> [pc |-> "lookup", ret |-> "getconn1"]
      [] label = "cleanup_chk" -> [pc |-> "lookup", ret |-> "cleanup_pop"]
      [] label = "cleanup_done" -> [pc |-> "lookup", ret |-> "getconn3"]
      [] label = "reset_chk" -> [pc |-> "lookup", ret |-> "reset"]
      [] label = "status_chk" -> [pc |-> "lookup", ret |-> "status"]
      [] OTHER -> [pc |-> label, ret |-> "none"]

PoolLookup(w) ==
    /\ pc[w] = "lookup"
    /\ LockFree(w)
    /\ IF registry[AliasOf(w)] = NoPool
       THEN /\ lock' = w
            /\ pc' = [pc EXCEPT ![w] = "create"]
            /\ UNCHANGED <<ret, cur>>
       ELSE /\ lock' = NoOne
            /\ cur' = [cur EXCEPT ![w] = registry[AliasOf(w)]]
            /\ pc' = [pc EXCEPT ![w] = Cont(ret[w]).pc]
            /\ ret' = [ret EXCEPT ![w] = Cont(ret[w]).ret]
    /\ UNCHANGED <<retry, engine, alias, order, registry, pools, health, got, conn, err, old, settings, monitor, now, sweptAt, sweep, at, failed, src>>

PoolCreate(w) ==
    /\ pc[w] = "create"
    /\ UnbornPools # {}
    /\ pools' = [pools EXCEPT ![FreshPool] = NewPool(AliasOf(w))]
    /\ registry' = [registry EXCEPT ![AliasOf(w)] = FreshPool]
    /\ settings' = IF engine = "base"
                   THEN [settings EXCEPT ![AliasOf(w)]["created_at"] = now]
                   ELSE settings
    /\ cur' = [cur EXCEPT ![w] = FreshPool]
    /\ lock' = NoOne
    /\ pc' = [pc EXCEPT ![w] = Cont(ret[w]).pc]
    /\ ret' = [ret EXCEPT ![w] = Cont(ret[w]).ret]
    /\ UNCHANGED <<retry, engine, alias, order, health, got, conn, err, old, monitor, now, sweptAt, sweep, at, failed, src>>

\* ------------------------------------------------------------------------
\* get_new_connection (pooled)
\* ------------------------------------------------------------------------
Pooled(w) == TRUE   \* OPTIONS["pool"] is set for every alias of this model

\* self.pool of base.py is a property: nothing of a lookup outlives the
\* operation; database_wrapper.py keeps the pool in the attribute self.pool
Forget(w) == IF engine = "base" THEN [cur EXCEPT ![w] = NoPool] ELSE cur

\* the call ends by handing connection c to the caller (connect() stores it
\* in self.connection)
Return(w, c) ==
    /\ conn' = [conn EXCEPT ![w] = c]
    /\ got' = [got EXCEPT ![w] = NoConn]
    /\ err' = [err EXCEPT ![w] = "none"]
    /\ at' = [at EXCEPT ![w] = "none"]
    /\ failed' = [failed EXCEPT ![w] = NoPool]
    /\ pc' = [pc EXCEPT ![w] = "idle"]
    /\ ret' = [ret EXCEPT ![w] = "none"]
    /\ src' = [src EXCEPT ![w] = NoPool]
    /\ cur' = Forget(w)

\* the call ends by raising
Raise(w) ==
    /\ got' = [got EXCEPT ![w] = NoConn]
    /\ err' = [err EXCEPT ![w] = "none"]
    /\ at' = [at EXCEPT ![w] = "none"]
    /\ failed' = [failed EXCEPT ![w] = NoPool]
    /\ pc' = [pc EXCEPT ![w] = "idle"]
    /\ ret' = [ret EXCEPT ![w] = "none"]
    /\ src' = [src EXCEPT ![w] = NoPool]
    /\ cur' = Forget(w)
    /\ UNCHANGED conn

\* an exception raised inside the try block of base.py reaches its handler
Caught(w, e) ==
    /\ err' = [err EXCEPT ![w] = e]
    /\ at' = [at EXCEPT ![w] = pc[w]]
    /\ failed' = [failed EXCEPT ![w] = cur[w]]
    /\ pc' = [pc EXCEPT ![w] = "except"]
    /\ ret' = [ret EXCEPT ![w] = "none"]
    /\ UNCHANGED <<got, conn, cur, src>>

get_new_connection(w) ==
    /\ pc[w] = "idle"
    /\ conn[w] = NoConn
    /\ Pooled(w)
    /\ pc' = [pc EXCEPT ![w] = "lookup"]
    /\ ret' = [ret EXCEPT ![w] = IF engine = "base" THEN "entered" ELSE "getconn1"]
    /\ UNCHANGED <<retry, engine, alias, order, lock, registry, pools, health, cur, got, conn, err, old,
                   settings, monitor, now, sweptAt, sweep, at, failed, src>>

\* connection = self.pool.getconn()
GetConn1(w) ==
    /\ pc[w] = "getconn1"
    /\ \E r \in Getconn(cur[w]) :
        /\ pools' = r.pools
        /\ health' = r.health
        /\ IF r.e = "none"
           THEN /\ got' = [got EXCEPT ![w] = r.res]
                /\ pc' = [pc EXCEPT ![w] = "validate"]
                /\ UNCHANGED <<ret, cur, conn, err, at, failed, src>>
           ELSE IF engine = "base" THEN Caught(w, r.e) ELSE Raise(w)
    /\ UNCHANGED <<retry, engine, alias, order, lock, registry, old, settings, monitor, now, sweptAt, sweep>>

\* database_wrapper.py: SELECT 1 on the connection; base.py: conn.closed
Validate(w) ==
    /\ pc[w] = "validate"
    /\ IF health[got[w]] = "ok"
       THEN Return(w, got[w])
       ELSE /\ IF engine = "base"
               THEN /\ pc' = [pc EXCEPT ![w] = "lookup"]
                    /\ ret' = [ret EXCEPT ![w] = "discard"]
               ELSE /\ pc' = [pc EXCEPT ![w] = "discard"]
                    /\ UNCHANGED ret
            /\ UNCHANGED <<got, conn, err, at, failed, src, cur>>
    /\ UNCHANGED <<retry, engine, alias, order, lock, registry, pools, health, old, settings, monitor, now, sweptAt, sweep>>

\* self.pool.putconn(connection, close=True)
Discard(w) ==
    /\ pc[w] = "discard"
    /\ LET r == Putconn(cur[w], got[w], TRUE) IN
        /\ pools' = r.pools
        /\ health' = r.health
        /\ IF r.e = "none"
           THEN /\ IF engine = "base"
                   THEN /\ pc' = [pc EXCEPT ![w] = "lookup"]
                        /\ ret' = [ret EXCEPT ![w] = "getconn2"]
                   ELSE /\ pc' = [pc EXCEPT ![w] = "getconn2"]
                        /\ UNCHANGED ret
                /\ got' = [got EXCEPT ![w] = NoConn]
                /\ src' = [src EXCEPT ![w] = cur[w]]
                /\ UNCHANGED <<conn, err, at, failed, cur>>
           ELSE IF engine = "base" THEN Caught(w, r.e) ELSE Raise(w)
    /\ UNCHANGED <<retry, engine, alias, order, lock, registry, old, settings, monitor, now, sweptAt, sweep>>

\* the replacement: connection = self.pool.getconn(), returned as it is
GetConn2(w) ==
    /\ pc[w] = "getconn2"
    /\ \E r \in Getconn(cur[w]) :
        /\ pools' = r.pools
        /\ health' = r.health
        /\ IF r.e = "none" THEN Return(w, r.res)
           ELSE IF engine = "base" THEN Caught(w, r.e) ELSE Raise(w)
    /\ UNCHANGED <<retry, engine, alias, order, lock, registry, old, settings, monitor, now, sweptAt, sweep>>

\* the pool's own capacity timeout taken for the exhaustion error as well
AnyExhaustion(e) == e \in {"TooManyClients", "PoolExhausted"}

\* every exception taken for the exhaustion error
AnyError(e) == TRUE

IsTransient(e) == e = "TooManyClients"   \* "too many clients already" in str(e)

\* base.py: except Exception as e
Except(w) ==
    /\ pc[w] = "except"
    /\ IF IsTransient(err[w])
       THEN /\ pc' = [pc EXCEPT ![w] = "lookup"]
            /\ ret' = [ret EXCEPT ![w] = "cleanup_chk"]
            /\ UNCHANGED <<got, conn, err, at, failed, src, cur>>
       ELSE Raise(w)
    /\ UNCHANGED <<retry, engine, alias, order, lock, registry, pools, health, old, settings, monitor, now, sweptAt, sweep>>

\* _cleanup_connections: current_pool = self.pool; pop the alias under the lock
CleanupPop(w) ==
    /\ pc[w] = "cleanup_pop"
    /\ LockFree(w)
    /\ old' = [old EXCEPT ![w] = cur[w]]
    /\ registry' = [registry EXCEPT ![AliasOf(w)] = NoPool]
    /\ lock' = NoOne
    /\ pc' = [pc EXCEPT ![w] = "cleanup_close"]
    /\ UNCHANGED <<retry, engine, alias, order, pools, health, ret, cur, got, conn, err, settings, monitor,
                   now, sweptAt, sweep, at, failed, src>>

\* _cleanup_connections: current_pool.close(), errors ignored; then the pool
\* is looked up again, which recreates it
CleanupClose(w) ==
    /\ pc[w] = "cleanup_close"
    /\ pools' = ClosePool(old[w]).pools
    /\ health' = ClosePool(old[w]).health
    /\ old' = [old EXCEPT ![w] = NoPool]
    /\ pc' = [pc EXCEPT ![w] = "lookup"]
    /\ ret' = [ret EXCEPT ![w] = "cleanup_done"]
    /\ UNCHANGED <<retry, engine, alias, order, lock, registry, cur, got, conn, err, settings, monitor, now,
                   sweptAt, sweep, at, failed, src>>

\* the last acquisition's failure taken back into the handler
Handle(w, e) == Caught(w, e)

\* an exception raised inside the except clause leaves get_new_connection
Propagate(w, e) == Raise(w)

\* base.py: return self.pool.getconn() after the cleanup
GetConn3(w) ==
    /\ pc[w] = "getconn3"
    /\ \E r \in Getconn(cur[w]) :
        /\ pools' = r.pools
        /\ health' = r.health
        /\ IF r.e = "none" THEN Return(w, r.res) ELSE Propagate(w, r.e)
    /\ UNCHANGED <<retry, engine, alias, order, lock, registry, old, settings, monitor, now, sweptAt, sweep>>

\* ------------------------------------------------------------------------
\* close
\* ------------------------------------------------------------------------
\* the wrapper keeping the connection it gave back
Kept(c) == c

\* self.connection = None after putconn
Released(c) == NoConn

\* database_wrapper.py: putconn(self.connection), then self.connection = None;
\* an exception of putconn leaves self.connection as it is
CloseWrapper(w) ==
    /\ engine = "wrapper"
    /\ pc[w] = "idle"
    /\ conn[w] # NoConn
    /\ IF cur[w] # NoPool
       THEN LET r == Putconn(cur[w], conn[w], FALSE) IN
            /\ pools' = r.pools
            /\ health' = r.health
            /\ conn' = [conn EXCEPT ![w] = IF r.e = "none" THEN Released(@) ELSE @]
       ELSE /\ health' = [health EXCEPT ![conn[w]] = "closed"]
            /\ UNCHANGED <<pools, conn>>
    /\ UNCHANGED <<retry, engine, alias, order, lock, registry, pc, ret, cur, got, err, old, settings, monitor, now, sweptAt, sweep, at, failed, src>>

\* base.py: if self.connection is None or not self.pool
CloseBase(w) ==
    /\ engine = "base"
    /\ pc[w] = "idle"
    /\ conn[w] # NoConn
    /\ pc' = [pc EXCEPT ![w] = "lookup"]
    /\ ret' = [ret EXCEPT ![w] = "close_chk"]
    /\ UNCHANGED <<retry, engine, alias, order, lock, registry, pools, health, cur, got, conn, err, old,
                   settings, monitor, now, sweptAt, sweep, at, failed, src>>

\* base.py: if self.connection.closed: self.connection = None; return
CloseCheck(w) ==
    /\ pc[w] = "close_chk"
    /\ IF health[conn[w]] = "closed"
       THEN /\ conn' = [conn EXCEPT ![w] = NoConn]
            /\ pc' = [pc EXCEPT ![w] = "idle"]
            /\ cur' = Forget(w)
            /\ UNCHANGED ret
       ELSE /\ pc' = [pc EXCEPT ![w] = "lookup"]
            /\ ret' = [ret EXCEPT ![w] = "close_put"]
            /\ UNCHANGED <<conn, cur>>
    /\ UNCHANGED <<retry, engine, alias, order, lock, registry, pools, health, got, err, old, settings,
                   monitor, now, sweptAt, sweep, at, failed, src>>

\* base.py: self.pool.putconn(self.connection); on an exception the
\* connection is closed by force; self.connection = None either way
ClosePut(w) ==
    /\ pc[w] = "close_put"
    /\ LET r == Putconn(cur[w], conn[w], FALSE) IN
        /\ pools' = r.pools
        /\ health' = IF r.e = "none" THEN r.health
                     ELSE [health EXCEPT ![conn[w]] = "closed"]
    /\ conn' = [conn EXCEPT ![w] = Released(@)]
    /\ pc' = [pc EXCEPT ![w] = "idle"]
    /\ cur' = Forget(w)
    /\ UNCHANGED <<retry, engine, alias, order, lock, registry, ret, got, err, old, settings, monitor, now, sweptAt, sweep, at, failed, src>>

\* ------------------------------------------------------------------------
\* the database: connections die while idle, queries fail on a held one
\* ------------------------------------------------------------------------
IdleConnDies(c) ==
    /\ health[c] = "ok"
    /\ \E p \in PoolIds : pools[p].state = "open" /\ c \in pools[p].idle
    /\ health' = [health EXCEPT ![c] = "closed"]
    /\ UNCHANGED <<retry, engine, alias, order, lock, registry, pools, pc, ret, cur, got, conn, err, old,
                   settings, monitor, now, sweptAt, sweep, at, failed, src>>

UseFails(w) ==
    /\ pc[w] = "idle"
    /\ conn[w] # NoConn
    /\ health[conn[w]] = "ok"
    /\ health' = [health EXCEPT ![conn[w]] = "closed"]
    /\ UNCHANGED <<retry, engine, alias, order, lock, registry, pools, pc, ret, cur, got, conn, err, old,
                   settings, monitor, now, sweptAt, sweep, at, failed, src>>

\* ------------------------------------------------------------------------
\* administrative operations
\* ------------------------------------------------------------------------
RECURSIVE CloseAllIn(_, _, _)
CloseAllIn(ps, h, as) ==
    IF as = {} THEN [pools |-> ps, health |-> h]
    ELSE LET a == CHOOSE x \in as : TRUE
             r == IF registry[a] = NoPool THEN [pools |-> ps, health |-> h]
                  ELSE ClosePoolIn(ps, h, registry[a])
         IN  CloseAllIn(r.pools, r.health, as \ {a})

\* the pools closed and their entries left in _pools
NotCleared == registry

\* cls._pools.clear()
Cleared == [a \in Aliases |-> NoPool]

\* database_wrapper.py: closeall() on every pool, then _pools.clear()
close_all_pools ==
    /\ engine = "wrapper"
    /\ lock = NoOne
    /\ pools' = CloseAllIn(pools, health, Aliases).pools
    /\ health' = CloseAllIn(pools, health, Aliases).health
    /\ registry' = Cleared
    /\ UNCHANGED <<retry, engine, alias, order, lock, pc, ret, cur, got, conn, err, old, settings, monitor,
                   now, sweptAt, sweep, at, failed, src>>

\* base.py close_pool: if self.pool
close_pool(w) ==
    /\ engine = "base"
    /\ pc[w] = "idle"
    /\ pc' = [pc EXCEPT ![w] = "lookup"]
    /\ ret' = [ret EXCEPT ![w] = "close_pool"]
    /\ UNCHANGED <<retry, engine, alias, order, lock, registry, pools, health, cur, got, conn, err, old,
                   settings, monitor, now, sweptAt, sweep, at, failed, src>>

\* base.py close_pool: under the lock, close the registered pool and delete
\* the entry; an exception of close() skips the delete
ClosePoolLocked(w) ==
    /\ pc[w] = "close_pool"
    /\ LockFree(w)
    /\ LET p == registry[AliasOf(w)] IN
       IF p # NoPool
       THEN /\ pools' = ClosePool(p).pools
            /\ health' = ClosePool(p).health
            /\ registry' = IF ClosePool(p).e = "none"
                           THEN [registry EXCEPT ![AliasOf(w)] = NoPool]
                           ELSE registry
       ELSE UNCHANGED <<pools, health, registry>>
    /\ lock' = NoOne
    /\ pc' = [pc EXCEPT ![w] = "idle"]
    /\ cur' = Forget(w)
    /\ UNCHANGED <<retry, engine, alias, order, ret, got, conn, err, old, settings, monitor, now,
                   sweptAt, sweep, at, failed, src>>

\* base.py reset_pool: if not self.pool
reset_pool(w) ==
    /\ engine = "base"
    /\ pc[w] = "idle"
    /\ pc' = [pc EXCEPT ![w] = "lookup"]
    /\ ret' = [ret EXCEPT ![w] = "reset_chk"]
    /\ UNCHANGED <<retry, engine, alias, order, lock, registry, pools, health, cur, got, conn, err, old,
                   settings, monitor, now, sweptAt, sweep, at, failed, src>>

\* base.py reset_pool: self.pool.resize(self.min_connections), errors logged
ResetResize(w) ==
    /\ pc[w] = "reset"
    /\ \E r \in Resize(cur[w], MinConnections) :
        /\ pools' = r.pools
        /\ health' = r.health
    /\ pc' = [pc EXCEPT ![w] = "idle"]
    /\ cur' = Forget(w)
    /\ UNCHANGED <<retry, engine, alias, order, lock, registry, ret, got, conn, err, old, settings,
                   monitor, now, sweptAt, sweep, at, failed, src>>

\* base.py get_pool_status: if not self.pool
get_pool_status(w) ==
    /\ engine = "base"
    /\ pc[w] = "idle"
    /\ pc' = [pc EXCEPT ![w] = "lookup"]
    /\ ret' = [ret EXCEPT ![w] = "status_chk"]
    /\ UNCHANGED <<retry, engine, alias, order, lock, registry, pools, health, cur, got, conn, err, old,
                   settings, monitor, now, sweptAt, sweep, at, failed, src>>

\* base.py get_pool_status: the dictionary built from self.pool.size, ...,
\* self.pool.busy and the stored created_at
PoolStatus(w) ==
    /\ pc[w] = "status"
    /\ pc' = [pc EXCEPT ![w] = "idle"]
    /\ cur' = Forget(w)
    /\ UNCHANGED <<retry, engine, alias, order, lock, registry, pools, health, ret, got, conn, err, old,
                   settings, monitor, now, sweptAt, sweep, at, failed, src>>

\* database_wrapper.py get_pool_status: the counters of the registered
\* pools, read under the lock
get_pool_status_locked ==
    /\ engine = "wrapper"
    /\ lock = NoOne
    /\ UNCHANGED vars

\* ------------------------------------------------------------------------
\* the monitor: _check_all_pools
\* ------------------------------------------------------------------------
DefaultMaxConnAge == 2      \* settings.get('max_conn_age', 1800): 1800 s in ticks
RecycleThresholdPct == 80   \* POOL_RECYCLE_THRESHOLD, 0.8, in percent

HasKey(d, k) == k \in DOMAIN d

SweepState(ps, h, reg, ab) == [pools |-> ps, health |-> h, registry |-> reg, aborted |-> ab]

\* the age check of one alias: pool.close() and del _connection_pools[alias];
\* an exception of close() skips the delete
AgeCheck(st, a, t) ==
    LET s == settings[a]
        p == st.registry[a]
        created == IF HasKey(s, "created_at") THEN s["created_at"] ELSE t
        limit == IF HasKey(s, "max_conn_age") THEN s["max_conn_age"] ELSE DefaultMaxConnAge
        r == ClosePoolIn(st.pools, st.health, p)
    IN  IF t - created > limit
        THEN SweepState(r.pools, r.health,
                        IF r.e = "none" THEN [st.registry EXCEPT ![a] = NoPool]
                        ELSE st.registry, FALSE)
        ELSE st

\* the body of the loop for one alias: a missing key raises KeyError, which
\* leaves the loop
CheckPool(st, a, t) ==
    LET s == settings[a]
        p == st.registry[a]
    IN  IF p = NoPool THEN {st}
        ELSE IF ~(HasKey(s, "max_connections") /\ HasKey(s, "recycle_threshold"))
        THEN {[st EXCEPT !.aborted = TRUE]}
        ELSE IF Cardinality(st.pools[p].used) * 100 > s["max_connections"] * s["recycle_threshold"]
        THEN {AgeCheck(SweepState(r.pools, r.health, st.registry, FALSE), a, t)
              : r \in ResizeIn(st.pools, st.health, p, s["min_connections"])}
        ELSE {AgeCheck(st, a, t)}

RECURSIVE SweepFrom(_, _, _)
SweepFrom(i, st, t) ==
    IF i > Len(order) THEN {st}
    ELSE UNION {IF r.aborted THEN {r} ELSE SweepFrom(i + 1, r, t)
                : r \in CheckPool(st, order[i], t)}

\* one pass of the monitor loop; an exception is logged by monitor_pools
check_all_pools ==
    /\ monitor > 0
    /\ lock = NoOne
    /\ \E st \in SweepFrom(1, SweepState(pools, health, registry, FALSE), now) :
        /\ pools' = st.pools
        /\ health' = st.health
        /\ registry' = st.registry
    /\ sweptAt' = now
    /\ UNCHANGED <<retry, engine, alias, order, lock, pc, ret, cur, got, conn, err, old, settings, monitor,
                   now, sweep, at, failed, src>>

\* The same sweep step by step.  _check_all_pools takes _lock and walks
\* _pool_settings.items() inside the with block.
SweepBegin ==
    /\ monitor > 0
    /\ sweep.pc = "sleep"
    /\ lock = NoOne
    /\ lock' = "monitor"
    /\ sweep' = [pc |-> "locked", i |-> 1, t |-> now, n |-> Len(order), seen |-> {}]
    /\ UNCHANGED <<retry, engine, alias, order, registry, pools, health, pc, ret, cur, got, conn,
                   err, old, settings, monitor, now, sweptAt, at, failed, src>>

\* the loop body for the next alias; an exception leaves the loop and the
\* with block and is logged by monitor_pools
SweepAlias ==
    /\ sweep.pc = "locked"
    /\ Len(order) = sweep.n
    /\ sweep.i <= sweep.n
    /\ \E r \in CheckPool(SweepState(pools, health, registry, FALSE), order[sweep.i], sweep.t) :
        /\ pools' = r.pools
        /\ health' = r.health
        /\ registry' = r.registry
        /\ IF r.aborted
           THEN /\ lock' = NoOne
                /\ sweptAt' = sweep.t
                /\ sweep' = [sweep EXCEPT !.pc = "sleep", !.seen = @ \cup {order[sweep.i]}]
           ELSE /\ sweep' = [sweep EXCEPT !.i = @ + 1, !.seen = @ \cup {order[sweep.i]}]
                /\ UNCHANGED <<lock, sweptAt>>
    /\ UNCHANGED <<retry, engine, alias, order, pc, ret, cur, got, conn, err, old, settings,
                   monitor, now, at, failed, src>>

\* the loop ends: after the last alias, or with the RuntimeError of a
\* dictionary that __init__ enlarged during the iteration
SweepEnd ==
    /\ sweep.pc = "locked"
    /\ Len(order) # sweep.n \/ sweep.i > sweep.n
    /\ lock' = NoOne
    /\ sweptAt' = sweep.t
    /\ sweep' = [sweep EXCEPT !.pc = "sleep"]
    /\ UNCHANGED <<retry, engine, alias, order, registry, pools, health, pc, ret, cur, got, conn,
                   err, old, settings, monitor, now, at, failed, src>>

Tick ==
    /\ engine = "base"
    /\ now < MaxTime
    /\ now' = now + 1
    /\ UNCHANGED <<retry, engine, alias, order, lock, registry, pools, health, pc, ret, cur, got, conn, err,
                   old, settings, monitor, sweptAt, sweep, at, failed, src>>

\* ------------------------------------------------------------------------
Next ==
    \/ \E w \in Wrappers :
        \/ Construct(w)
        \/ start_pool_monitor(w)
        \/ PoolLookup(w)
        \/ PoolCreate(w)
        \/ get_new_connection(w)
        \/ GetConn1(w)
        \/ Validate(w)
        \/ Discard(w)
        \/ GetConn2(w)
        \/ Except(w)
        \/ CleanupPop(w)
        \/ CleanupClose(w)
        \/ GetConn3(w)
        \/ CloseWrapper(w)
        \/ CloseBase(w)
        \/ CloseCheck(w)
        \/ ClosePut(w)
        \/ UseFails(w)
        \/ close_pool(w)
        \/ ClosePoolLocked(w)
        \/ reset_pool(w)
        \/ ResetResize(w)
        \/ get_pool_status(w)
        \/ PoolStatus(w)
    \/ \E c \in ConnIds : IdleConnDies(c)
    \/ close_all_pools
    \/ get_pool_status_locked
    \/ check_all_pools

Spec == Init /\ [][Next]_vars

\* ------------------------------------------------------------------------
\* The clock running, for the monitor's age and capacity checks: the runs in
\* which no connection fails and no administrative operation is called
\* ------------------------------------------------------------------------
NextClock ==
    \/ \E w \in Wrappers :
        \/ Construct(w)
        \/ start_pool_monitor(w)
        \/ PoolLookup(w)
        \/ PoolCreate(w)
        \/ get_new_connection(w)
        \/ GetConn1(w)
        \/ Validate(w)
        \/ CloseBase(w)
        \/ CloseCheck(w)
        \/ ClosePut(w)
    \/ check_all_pools
    \/ Tick

InitClock == MainInit /\ retry = RetryOff /\ engine = "base"

SpecClock == InitClock /\ [][NextClock]_vars

\* ------------------------------------------------------------------------
\* The monitor followed alias by alias through its sweep
\* ------------------------------------------------------------------------
NextSweep ==
    \/ \E w \in Wrappers :
        \/ Construct(w)
        \/ start_pool_monitor(w)
        \/ PoolLookup(w)
        \/ PoolCreate(w)
        \/ get_new_connection(w)
        \/ GetConn1(w)
        \/ Validate(w)
        \/ CloseBase(w)
        \/ CloseCheck(w)
        \/ ClosePut(w)
    \/ SweepBegin
    \/ SweepAlias
    \/ SweepEnd
    \/ Tick

SpecSweep == InitClock /\ [][NextSweep]_vars

\* ------------------------------------------------------------------------
\* database_wrapper.py alone, on one alias or on two
\* ------------------------------------------------------------------------
InitWrapper == MainInit /\ retry = RetryOff /\ engine = "wrapper"

NextWrapper ==
    \/ \E w \in Wrappers :
        \/ Construct(w)
        \/ PoolLookup(w)
        \/ PoolCreate(w)
        \/ get_new_connection(w)
        \/ GetConn1(w)
        \/ Validate(w)
        \/ Discard(w)
        \/ GetConn2(w)
        \/ CloseWrapper(w)
        \/ UseFails(w)
    \/ \E c \in ConnIds : IdleConnDies(c)
    \/ close_all_pools
    \/ get_pool_status_locked

SpecWrapper == InitWrapper /\ [][NextWrapper]_vars

\* ------------------------------------------------------------------------
\* get_new_connection without a pool: the retry loop of base.py
\* ------------------------------------------------------------------------
MaxFails == 12          \* transient failures the connection factory is set to give
max_retries == 10
BaseDelay == 1          \* retry_delay = 0.01 s, in units of 10 ms

\* the retry without the test of the message
RetryAny(e, n) == n < max_retries

\* "too many clients already" in str(e) and retry_count < max_retries
CanRetry(e, n) == IsTransient(e) /\ n < max_retries

\* the delay left as it is
SameDelay(d) == d

\* retry_delay *= 2
NextDelay(d) == d * 2

\* what super().get_new_connection does at its n-th call: the factory fails
\* `fails` times with the transient error and then gives `final` for good
Factory(n) ==
    IF n <= retry.fails THEN "TooManyClients"
    ELSE IF retry.final = "ok" THEN "none" ELSE "OtherError"

InitRetry ==
    /\ MainInit
    /\ engine = "base"
    /\ \E k \in 0..MaxFails, f \in {"ok", "other"} :
        retry = [rpc |-> "try", fails |-> k, final |-> f, retry_count |-> 0,
                 retry_delay |-> BaseDelay, attempts |-> 0, sleeps |-> << >>]

\* return super().get_new_connection(conn_params), and the except clause
RetryAttempt ==
    /\ retry.rpc = "try"
    /\ LET e == Factory(retry.attempts + 1) IN
       retry' = [retry EXCEPT
                   !.attempts = @ + 1,
                   !.retry_count = IF e # "none" /\ CanRetry(e, @) THEN @ + 1 ELSE @,
                   !.rpc = IF e = "none" THEN "returned"
                           ELSE IF CanRetry(e, retry.retry_count) THEN "sleep"
                           ELSE "raised"]
    /\ UNCHANGED <<engine, alias, order, lock, registry, pools, health, pc, ret, cur, got, conn, err,
                   old, settings, monitor, now, sweptAt, sweep, at, failed, src>>

\* time.sleep(retry_delay); retry_delay *= 2
RetrySleep ==
    /\ retry.rpc = "sleep"
    /\ retry' = [retry EXCEPT !.sleeps = Append(@, retry.retry_delay),
                              !.retry_delay = NextDelay(@),
                              !.rpc = "try"]
    /\ UNCHANGED <<engine, alias, order, lock, registry, pools, health, pc, ret, cur, got, conn, err,
                   old, settings, monitor, now, sweptAt, sweep, at, failed, src>>

NextRetry == RetryAttempt \/ RetrySleep

SpecRetry == InitRetry /\ [][NextRetry]_vars

\* the thread that runs the loop is scheduled until the call ends
SpecRetryFair == SpecRetry /\ WF_vars(NextRetry)

\* ========================================================================
\* Properties
\* ========================================================================
Holders(c) == {w \in Wrappers : conn[w] = c \/ got[w] = c}
Born(p) == pools[p].state # "none"

\* C1: a pool is constructed for an alias only while the registry has no
\* entry for that alias, and the step that constructs it makes it the
\* registry's entry: concurrent first users of an alias construct one pool.
C1_OnePoolPerAlias ==
    [][\A p \in PoolIds :
         (pools[p].state = "none" /\ pools'[p].state = "open")
         => /\ registry[pools'[p].alias] = NoPool
            /\ registry'[pools'[p].alias] = p]_vars

\* one wrapper is constructing the pool while another one of the same alias
\* waits at its lookup
C1_Witness ==
    \E w1, w2 \in Wrappers :
        /\ w1 # w2
        /\ AliasOf(w1) = AliasOf(w2)
        /\ pc[w1] = "create"
        /\ pc[w2] = "lookup"
        /\ registry[AliasOf(w1)] = NoPool

\* C2: no connection is held by two wrappers at once, and no connection is
\* in a pool's idle set while a wrapper holds it.
C2_ExclusiveOwnership ==
    \A c \in ConnIds :
        /\ Cardinality(Holders(c)) <= 1
        /\ \A p \in PoolIds : c \in pools[p].idle => Holders(c) = {}

\* a wrapper holds a connection of a pool that has another connection idle,
\* and a second wrapper is about to acquire from that pool
C2_Witness ==
    \E p \in PoolIds, w1, w2 \in Wrappers :
        /\ conn[w1] \in pools[p].used
        /\ pools[p].idle # {}
        /\ pc[w2] = "getconn1"
        /\ cur[w2] = p

\* C3: for every pool, busy >= 0, idle >= 0 and
\* busy + idle <= size <= maxConnections + maxOverflow.
C3_PoolBounds ==
    \A p \in PoolIds :
        Born(p) => /\ busy(p) >= 0
                   /\ idle(p) >= 0
                   /\ busy(p) + idle(p) <= size(p)
                   /\ size(p) <= MaxConnections + MaxOverflow

\* a pool at its full size with every connection checked out, and a wrapper
\* about to ask it for one more
C3_Witness ==
    \E p \in PoolIds, w \in Wrappers :
        /\ pools[p].state = "open"
        /\ size(p) = MaxConnections + MaxOverflow
        /\ busy(p) = size(p)
        /\ pc[w] = "getconn1"
        /\ cur[w] = p

\* C4: a release of a closed connection never puts it into the idle set and
\* decreases the size of its pool by exactly one.
C4_ClosedReleaseShrinks ==
    [][\A w \in Wrappers, p \in PoolIds :
         (/\ conn[w] # NoConn
          /\ health[conn[w]] = "closed"
          /\ conn[w] \in pools[p].used
          /\ conn'[w] = NoConn)
         => /\ conn[w] \notin pools'[p].idle
            /\ pools'[p].size = pools[p].size - 1]_vars

\* C5: a connection that get_new_connection hands to its caller is healthy
\* at that moment: an unhealthy replacement is never returned.
C5_ReturnedIsHealthy ==
    [][\A w \in Wrappers :
         (conn[w] = NoConn /\ conn'[w] # NoConn) => health'[conn'[w]] = "ok"]_vars

\* C6 as claimed: the replacement is acquired from the pool that discarded
\* the connection, and no acquisition follows a failed replacement.
C6_NoAcquisitionAfterReplacement ==
    \A w \in Wrappers :
        /\ pc[w] = "getconn2" => cur[w] = src[w]
        /\ pc[w] = "getconn3" => at[w] # "getconn2"

\* C6 as amended: a connection that fails validation is given to
\* putconn(close=True); when that succeeds the connection is closed, out of
\* the pool and the size one less, and one replacement acquisition follows
\* (database_wrapper.py: from the same pool).  A failure of the replacement
\* ends the call, except that base.py answers the exhaustion error with the
\* emergency cleanup and one last acquisition.
C6_DiscardAndReplaceOnce ==
    /\ [](\A w \in Wrappers :
            /\ pc[w] = "getconn2" => (src[w] # NoPool /\ got[w] = NoConn)
            /\ (pc[w] = "getconn2" /\ engine = "wrapper") => cur[w] = src[w]
            /\ pc[w] = "getconn3" => (engine = "base" /\ err[w] = "TooManyClients")
            /\ (at[w] = "getconn2" /\ err[w] # "TooManyClients") => pc[w] = "except")
    /\ [][\A w \in Wrappers :
            (pc[w] = "discard" /\ pc'[w] \in {"getconn2", "lookup"})
            => /\ health'[got[w]] = "closed"
               /\ got[w] \notin pools'[cur[w]].used \cup pools'[cur[w]].idle
               /\ pools'[cur[w]].size = pools[cur[w]].size - 1]_vars
    /\ [][\A w \in Wrappers :
            /\ (pc[w] = "getconn2" /\ pc'[w] # "getconn2")
               => pc'[w] = (IF engine = "base" /\ conn'[w] = NoConn THEN "except" ELSE "idle")
            /\ (pc[w] = "except" /\ err[w] # "TooManyClients" /\ pc'[w] # "except")
               => (pc'[w] = "idle" /\ conn'[w] = NoConn)
            /\ (pc[w] = "getconn3" /\ pc'[w] # "getconn3") => pc'[w] = "idle"]_vars

\* the replacement failed with the exhaustion error and the call is at its
\* last acquisition, after the cleanup
C6_Witness ==
    \E w \in Wrappers : pc[w] = "getconn3" /\ at[w] = "getconn2"

\* C7: a factory that fails k <= 10 times with the exhaustion error and then
\* succeeds makes the loop return after k + 1 attempts and k sleeps, each
\* sleep twice the one before, the first of the base delay.
C7_Backoff ==
    (retry.rpc # "off" /\ retry.final = "ok" /\ retry.fails <= 10)
    => /\ retry.rpc # "raised"
       /\ retry.rpc = "returned"
          => /\ retry.attempts = retry.fails + 1
             /\ Len(retry.sleeps) = retry.fails
             /\ \A i \in 1..Len(retry.sleeps) : retry.sleeps[i] = BaseDelay * 2^(i - 1)
             /\ \A i \in 1..Len(retry.sleeps), j \in 1..Len(retry.sleeps) :
                    i < j => retry.sleeps[i] < retry.sleeps[j]

\* three failures, then success at the fourth attempt
C7_Witness ==
    retry.rpc = "returned" /\ retry.fails = 3 /\ retry.attempts = 4

RetryDone == retry.rpc \in {"returned", "raised"}

\* C8: the loop ends; against a factory that never stops failing with the
\* exhaustion error it raises after 10 retries (11 calls of the factory, 10
\* sleeps); a failure of another kind is raised at once, with no sleep and
\* no attempt after it.
C8_RetryTerminates ==
    /\ <>RetryDone
    /\ [](/\ retry.attempts <= 11
          /\ retry.rpc = "raised"
             => IF retry.fails > 10
                THEN retry.attempts = 11 /\ Len(retry.sleeps) = 10
                ELSE /\ retry.final = "other"
                     /\ retry.attempts = retry.fails + 1
                     /\ Len(retry.sleeps) = retry.fails)

\* the factory never stopped failing and the loop gave up
C8_Witness ==
    retry.rpc = "raised" /\ retry.fails > 10 /\ retry.retry_count = 10

\* C9: after a monitor sweep no pool older than the maximum age at that
\* sweep is left in the registry.
C9_AgedPoolRemoved ==
    \A a \in Aliases :
        (sweptAt >= 0 /\ registry[a] # NoPool /\ HasKey(settings[a], "created_at"))
        => sweptAt - settings[a]["created_at"] <= DefaultMaxConnAge

\* C10: a monitor sweep that finds busy > maxConnections * recycleThreshold
\* shrinks the pool toward minConnections, closing idle connections only.
C10_CapacityTrim ==
    [][check_all_pools =>
         \A a \in Aliases :
            LET p == registry[a] IN
            (p # NoPool /\ busy(p) * 100 > MaxConnections * RecycleThresholdPct)
            => /\ pools'[p].used = pools[p].used
               /\ Cardinality(pools'[p].idle) =
                    idle(p) - Min(idle(p), Max(0, size(p) - MinConnections))]_vars

\* C11: at most one monitor thread is ever created and started, however
\* many wrappers are constructed and from however many threads.
C11_SingleMonitor == monitor <= 1

\* C12: close_all_pools leaves the registry empty and every pool that was
\* registered closed; the registry never holds a closed pool, so a
\* get_new_connection that begins afterwards finds no entry, constructs a
\* fresh pool and acquires from that open pool, also while another thread is
\* still inside an acquisition that began before the close.
C12_CloseAllThenFresh ==
    /\ [](\A a \in Aliases :
            registry[a] # NoPool => pools[registry[a]].state = "open")
    /\ [][(\E a \in Aliases : registry[a] # NoPool /\ registry'[a] # registry[a])
          => \A a \in Aliases :
                /\ registry'[a] = NoPool
                /\ registry[a] # NoPool => pools'[registry[a]].state = "closed"]_vars
    /\ [][\A w \in Wrappers :
            (pc[w] \in {"lookup", "create"} /\ pc'[w] = "getconn1")
            => /\ pools'[cur'[w]].state = "open"
               /\ registry'[AliasOf(w)] = cur'[w]
               /\ registry[AliasOf(w)] = NoPool => pools[cur'[w]].state = "none"]_vars

\* after a close_all_pools one thread is still inside the acquisition it
\* began on the pool that is now closed, and another thread's later
\* get_new_connection has constructed a fresh pool for the same alias
C12_Witness ==
    \E w1, w2 \in Wrappers :
        /\ engine = "wrapper"
        /\ AliasOf(w1) = AliasOf(w2)
        /\ pc[w1] = "getconn1" /\ pools[cur[w1]].state = "closed"
        /\ pc[w2] = "getconn1" /\ pools[cur[w2]].state = "open"
        /\ registry[AliasOf(w2)] = cur[w2]

\* C13: close_pool for an alias that has no pool in the registry is a no-op:
\* it constructs no pool and leaves the registry as it is.
C13_ClosePoolNoOp ==
    [][\A w \in Wrappers :
         (ret[w] = "close_pool" /\ pc[w] = "create" /\ pc'[w] # "create")
         => (registry' = registry /\ pools' = pools)]_vars

\* C14: get_pool_status is read-only: it leaves the registry, the pools and
\* the stored settings as they are, and constructs no pool for an alias that
\* has none.
C14_StatusReadOnly ==
    [][\A w \in Wrappers :
         (ret[w] \in {"status_chk", "status"} /\ pc[w] \in {"lookup", "create"}
          /\ <<pc[w], ret[w]>> # <<pc'[w], ret'[w]>>)
         => (registry' = registry /\ pools' = pools /\ settings' = settings)]_vars

InCleanup(w) ==
    \/ pc[w] \in {"cleanup_pop", "cleanup_close", "getconn3"}
    \/ ret[w] \in {"cleanup_chk", "cleanup_pop", "cleanup_done", "getconn3"}

\* C15: the emergency cleanup runs at most once in a get_new_connection
\* call: it is entered only from the handler of a pooled acquisition that
\* failed with the exhaustion error; it removes the alias's entry, closes
\* the pool it took, and the lookup that follows yields an open registered
\* pool; one acquisition follows, and the call ends with it, returning or
\* raising, never with a second cleanup.
C15_CleanupOnce ==
    /\ [](\A w \in Wrappers :
            /\ at[w] # "getconn3"
            /\ InCleanup(w) => /\ engine = "base"
                               /\ err[w] = "TooManyClients"
                               /\ at[w] \in {"getconn1", "getconn2"})
    /\ [][\A w \in Wrappers :
            /\ (~InCleanup(w) /\ InCleanup(w)') => pc[w] = "except"
            /\ (InCleanup(w) /\ ~InCleanup(w)') => (pc[w] = "getconn3" /\ pc'[w] = "idle")
            /\ (pc[w] = "cleanup_pop" /\ pc'[w] = "cleanup_close")
               => (registry'[AliasOf(w)] = NoPool /\ old'[w] = cur[w])
            /\ (pc[w] = "cleanup_close" /\ pc'[w] # "cleanup_close")
               => pools'[old[w]].state = "closed"
            /\ (pc[w] # "getconn3" /\ pc'[w] = "getconn3")
               => (pools'[cur'[w]].state = "open" /\ registry'[AliasOf(w)] = cur'[w])]_vars

\* the cleanup is done, the rebuilt pool is empty and the server accepts no
\* further connection: the one acquisition left can only fail
C15_Witness ==
    \E w \in Wrappers :
        /\ pc[w] = "getconn3"
        /\ pools[cur[w]].state = "open"
        /\ pools[cur[w]].idle = {}
        /\ UnbornConns = {}

\* C16: a pooled acquisition that fails because the pool is at capacity
\* (PoolExhausted) is raised to the caller at once: the handler starts no
\* cleanup and no retry, acquires nothing more and leaves the registry and
\* the pools as they are.
C16_ExhaustedSurfaced ==
    /\ [](\A w \in Wrappers :
            err[w] = "PoolExhausted" => (pc[w] = "except" /\ ~InCleanup(w)))
    /\ [][\A w \in Wrappers :
            (pc[w] = "except" /\ err[w] = "PoolExhausted" /\ pc'[w] # "except")
            => /\ pc'[w] = "idle"
               /\ conn'[w] = NoConn
               /\ registry' = registry
               /\ pools' = pools
               /\ retry' = retry]_vars
    /\ [][\A w \in Wrappers :
            (engine = "wrapper" /\ pc[w] \in {"getconn1", "getconn2"}
             /\ pc'[w] = "idle" /\ conn'[w] = NoConn)
            => registry' = registry]_vars

\* the pool is at capacity with every connection checked out and the
\* acquisition has just failed for that reason
C16_Witness ==
    \E w \in Wrappers :
        /\ pc[w] = "except"
        /\ err[w] = "PoolExhausted"
        /\ registry[AliasOf(w)] # NoPool
        /\ busy(registry[AliasOf(w)]) = PoolCapacity

InOrder(a) == \E i \in 1..Len(order) : order[i] = a

\* C17: in every sweep the loop body is applied to every alias that has a
\* pool in the registry, whatever happened while another alias was handled.
C17_SweepCoversAll ==
    [][(sweep.pc = "locked" /\ sweep'.pc = "sleep" /\ Len(order) = sweep.n)
       => \A a \in Aliases :
            (InOrder(a) /\ registry[a] # NoPool) => a \in sweep'.seen]_vars

\* C18: the monitor does not hold the registry lock from one alias to the
\* next: once it has handled an alias and before it handles the following
\* one the lock is free.
C18_LockFreeBetweenAliases ==
    (sweep.pc = "locked" /\ sweep.i > 1 /\ sweep.i <= sweep.n) => lock # "monitor"

\* C19: while the pool of an alias stays in the registry the settings stored
\* for the alias, created_at included, do not change.
C19_SettingsFrozen ==
    [][\A a \in Aliases :
         (registry[a] # NoPool /\ registry'[a] = registry[a])
         => settings'[a] = settings[a]]_vars

\* C20: the pool that an emergency cleanup takes out of the registry and
\* closes is the pool whose acquisition failed, never a pool constructed
\* since by another thread.
C20_CleanupClosesFailedPool ==
    [][\A w \in Wrappers :
         (pc[w] = "cleanup_pop" /\ pc'[w] = "cleanup_close")
         => (old'[w] = failed[w] /\ registry[AliasOf(w)] \in {failed[w], NoPool})]_vars
====
